---- MODULE Spec2Model ----
(***************************************************************************)
(* Model of api/index.js: the Apple receipt validator.                     *)
(*   validateReceipt        production-first verification with the single  *)
(*                          21007 fallback to the sandbox endpoint          *)
(*   makeAppleRequest       one HTTPS POST, its promise and its listeners   *)
(*   hasActiveSubscription  the entitlement scan of a validated receipt     *)
(*   app.post('/validate-receipt')  the route handler around them           *)
(* JavaScript values are tagged records so that values of different types  *)
(* can be compared: undefined, null, number, string (a sequence of string  *)
(* parts), boolean, array, object.                                         *)
(***************************************************************************)
EXTENDS Integers, Sequences, FiniteSets, TLC

VARIABLES pc, reqBody, payload, conns, calls, trace, validationResult,
          httpResponse, now, evals, conc

vars == <<pc, reqBody, payload, conns, calls, trace, validationResult,
          httpResponse, now, evals, conc>>

----------------------------------------------------------------------------
(* Bounds of the model *)

\* longest latest_receipt_info / in_app sequence of an evaluated receipt
MaxLen == 2
\* latest reading of the clock (Date.now()), in the unit of expires_date_ms
MaxNow == 2
\* number of evaluator calls made on one input
MaxEvals == 2
\* number of invocations of validateReceipt that run interleaved
NumInvocations == 2

----------------------------------------------------------------------------
(* Program constants *)

PRODUCTION_URL == "https://buy.itunes.apple.com/verifyReceipt"
SANDBOX_URL == "https://sandbox.itunes.apple.com/verifyReceipt"
SHARED_SECRET == "a374b8c7a3b346b5ab7bfc234e69924d"
\* the status of a verified receipt
STATUS_OK == 0
\* "this receipt is from the test environment"
STATUS_SANDBOX_RECEIPT == 21007
URLs == {PRODUCTION_URL, SANDBOX_URL}

----------------------------------------------------------------------------
(* JavaScript values *)

Undefined == [tag |-> "undefined"]
Null == [tag |-> "null"]
Num(n) == [tag |-> "number", v |-> n]
NaN == [tag |-> "NaN"]
Str(s) == [tag |-> "string", v |-> s]
Bool(b) == [tag |-> "boolean", v |-> b]
Arr(items) == [tag |-> "array", items |-> items]
\* a value that is truthy and not iterable (an object where an array belongs)
NotIterable == [tag |-> "plainObject"]

\* ToBoolean, as `!x` and `if (x)` apply it
Truthy(v) ==
  CASE v.tag = "undefined" -> FALSE
    [] v.tag = "null" -> FALSE
    [] v.tag = "NaN" -> FALSE
    [] v.tag = "number" -> v.v # 0
    [] v.tag = "string" -> v.v # <<>>
    [] v.tag = "boolean" -> v.v
    [] OTHER -> TRUE

\* a === b on primitives
StrictEq(a, b) ==
  /\ a.tag = b.tag
  /\ a.tag \in {"undefined", "null", "number", "string", "boolean"}
  /\ a = b

\* x.f throws a TypeError on undefined and null
Nullish(v) == v.tag \in {"undefined", "null"}

Digits == <<"0", "1", "2", "3", "4", "5", "6", "7", "8", "9">>

RECURSIVE NatText(_)
\* the decimal digits of a natural number
NatText(n) ==
  IF n < 10 THEN <<Digits[n + 1]>>
  ELSE NatText(n \div 10) \o <<Digits[(n % 10) + 1]>>

\* String(v) inside a template literal
ToText(v) ==
  CASE v.tag = "undefined" -> <<"undefined">>
    [] v.tag = "null" -> <<"null">>
    [] v.tag = "NaN" -> <<"NaN">>
    [] v.tag = "number" ->
         IF v.v < 0 THEN <<"-">> \o NatText(0 - v.v) ELSE NatText(v.v)
    [] v.tag = "string" -> v.v
    [] v.tag = "boolean" -> IF v.v THEN <<"true">> ELSE <<"false">>
    [] OTHER -> <<"[object Object]">>

IsDigit(c) == \E i \in 1..10 : Digits[i] = c
DigitVal(c) == (CHOOSE i \in 1..10 : Digits[i] = c) - 1

RECURSIVE DigitPrefix(_, _, _)
\* the value of the longest prefix of digits of s; seen tells if there was one
DigitPrefix(s, acc, seen) ==
  IF s # <<>> /\ IsDigit(Head(s))
  THEN DigitPrefix(Tail(s), 10 * acc + DigitVal(Head(s)), TRUE)
  ELSE IF seen THEN Num(acc) ELSE NaN

\* parseInt(v): the leading integer of String(v), NaN when there is none
parseInt(v) ==
  IF v.tag = "number" THEN v
  ELSE IF v.tag # "string" THEN NaN
  ELSE IF v.v # <<>> /\ Head(v.v) = "-"
       THEN LET m == DigitPrefix(Tail(v.v), 0, FALSE)
            IN IF m.tag = "number" THEN Num(0 - m.v) ELSE NaN
  ELSE IF v.v # <<>> /\ Head(v.v) = "+" THEN DigitPrefix(Tail(v.v), 0, FALSE)
  ELSE DigitPrefix(v.v, 0, FALSE)

\* variant: the comparison is written the wrong way round
GreaterThan_Reversed(a, n) == a.tag = "number" /\ a.v < n

\* variant: the comparison admits equality
GreaterThan_OrEqual(a, n) == a.tag = "number" /\ a.v >= n

\* variant: written as !(a <= n), which NaN passes
GreaterThan_NotLessEq(a, n) == ~(a.tag = "number" /\ a.v <= n)

\* a > n for a number n: false whenever a is NaN
GreaterThan(a, n) == a.tag = "number" /\ a.v > n

----------------------------------------------------------------------------
(* The data of a verification response *)

\* one entry of latest_receipt_info or in_app
Transaction(pid, expires) ==
  [tag |-> "transaction", product_id |-> pid, expires_date_ms |-> expires]
\* the receipt member of a response
Receipt(latest, inApp) ==
  [tag |-> "receipt", latest_receipt_info |-> latest, in_app |-> inApp]
\* a parsed response body that is an object
Response(status, receipt) ==
  [tag |-> "response", status |-> status, receipt |-> receipt]

\* property reads: undefined on a value that has no such member
PropStatus(v) == IF v.tag = "response" THEN v.status ELSE Undefined
PropReceipt(v) == IF v.tag = "response" THEN v.receipt ELSE Undefined
PropLatest(v) == IF v.tag = "receipt" THEN v.latest_receipt_info ELSE Undefined
PropInApp(v) == IF v.tag = "receipt" THEN v.in_app ELSE Undefined
PropProductId(v) == IF v.tag = "transaction" THEN v.product_id ELSE Undefined
PropExpires(v) == IF v.tag = "transaction" THEN v.expires_date_ms ELSE Undefined

ProductP == Str(<<"com.app.monthly">>)
ProductQ == Str(<<"com.app.yearly">>)
Products == {ProductP, ProductQ}

\* a provider status that is neither 0 nor 21007 (21004: the shared secret
\* does not match)
OtherStatus == Num(21004)

\* the statuses a response may carry: 0, 21007, another code, the string
\* "0", and no status member at all
Statuses ==
  {Num(STATUS_OK), Num(STATUS_SANDBOX_RECEIPT), OtherStatus, Str(<<"0">>),
   Undefined}

\* the receipts the provider sends in the request-level specification
WireReceipts ==
  {Undefined,
   Receipt(Arr(<<Transaction(ProductP, Str(<<"1", "0">>))>>), Undefined),
   Receipt(Arr(<<Transaction(ProductP, Str(<<"1">>))>>),
           Arr(<<Transaction(ProductP, Undefined)>>)),
   Receipt(Arr(<<Null>>), Undefined),
   Receipt(Undefined, NotIterable)}

\* every value JSON.parse may hand back in the request-level specification
ResponseValues ==
  {Null, Num(42)} \cup {Response(s, r) : s \in Statuses, r \in WireReceipts}

----------------------------------------------------------------------------
(* makeAppleRequest: the request body, the response text and its parsing *)

\* JSON.stringify(payload): the members in insertion order
JSONstringify(pl) ==
  <<<<"receipt-data", pl.receiptData>>,
    <<"password", Str(<<pl.password>>)>>,
    <<"exclude-old-transactions", Bool(pl.excludeOld)>>>>

\* the text of a response travels in chunks; a well-formed body is its two
\* halves in order
Chunk(v, i) == [part |-> i, of |-> v]
GarbageChunk == [part |-> 0, of |-> Undefined]
BodyOf(v) == <<Chunk(v, 1), Chunk(v, 2)>>

\* the bodies a server may send: well-formed JSON, an empty body, a
\* truncated body, and text that is not JSON
WireBodies ==
  {BodyOf(v) : v \in ResponseValues}
    \cup {<<>>, <<Chunk(Response(Num(STATUS_OK), Undefined), 1)>>, <<GarbageChunk>>}

\* JSON.parse(data): the value, or the SyntaxError's message
JSONparse(data) ==
  IF /\ Len(data) = 2
     /\ data[1].part = 1
     /\ data[2].part = 2
     /\ data[1].of = data[2].of
  THEN [ok |-> TRUE, value |-> data[1].of]
  ELSE [ok |-> FALSE,
        value |-> Str(<<IF data = <<>> THEN "Unexpected end of JSON input"
                        ELSE "Unexpected token in JSON">>)]

\* the messages of the errors the request object emits
NetworkErrors == {"socket hang up", "getaddrinfo ENOTFOUND"}

Pending == [state |-> "pending", value |-> Undefined]
Resolved(v) == [state |-> "resolved", value |-> v]
\* reject(new Error(msg)): the promise carries the error's message
Rejected(msg) == [state |-> "rejected", value |-> Str(msg)]

\* a connection that was never opened
NoConn == [state |-> "unsent", wire |-> <<>>, data |-> <<>>,
           promise |-> [state |-> "none", value |-> Undefined]]

Event(ev, url) == [ev |-> ev, url |-> url]

\* variant: the shared secret is sent to the production endpoint only
makeAppleRequest_SecretToProductionOnly(url, pl) ==
  /\ conns' = [conns EXCEPT ![url] =
                 [state |-> "sent", wire |-> <<>>, data |-> <<>>,
                  promise |-> Pending]]
  /\ calls' = Append(calls,
                [url |-> url,
                 postData |->
                   JSONstringify(IF url = PRODUCTION_URL THEN pl
                                 ELSE [pl EXCEPT !.password = ""])])
  /\ trace' = Append(trace, Event("send", url))

\* makeAppleRequest(url, payload): create the promise, write the body, end
\* the request
makeAppleRequest(url, pl) ==
  /\ conns' = [conns EXCEPT ![url] =
                 [state |-> "sent", wire |-> <<>>, data |-> <<>>,
                  promise |-> Pending]]
  /\ calls' = Append(calls, [url |-> url, postData |-> JSONstringify(pl)])
  /\ trace' = Append(trace, Event("send", url))

\* what the 'end' listener does with the collected data
OnEnd(data) ==
  LET parsed == JSONparse(data)
  IN IF parsed.ok THEN Resolved(parsed.value)
     ELSE Rejected(<<"Failed to parse Apple response: ">> \o parsed.value.v)

\* what the request's 'error' listener does
OnRequestError(msg) == Rejected(<<"Request failed: ", msg>>)

\* req.on('error'): the connection fails before or while the response arrives
ReqError(url, msg) ==
  /\ conns[url].state \in {"sent", "receiving"}
  /\ conns' = [conns EXCEPT ![url].state = "failed",
                            ![url].promise = OnRequestError(msg)]
  /\ trace' = Append(trace, Event("fail", url))
  /\ UNCHANGED <<pc, reqBody, payload, calls, validationResult, httpResponse,
                 now, evals, conc>>

\* the response callback: the server answers with some body; data = ''
ResponseBegin(url, body) ==
  /\ conns[url].state = "sent"
  /\ conns' = [conns EXCEPT ![url].state = "receiving",
                            ![url].wire = body,
                            ![url].data = <<>>]
  /\ UNCHANGED <<pc, reqBody, payload, calls, trace, validationResult,
                 httpResponse, now, evals, conc>>

\* res.on('data'): data += chunk
ResData(url) ==
  /\ conns[url].state = "receiving"
  /\ conns[url].wire # <<>>
  /\ conns' = [conns EXCEPT ![url].data = Append(@, Head(conns[url].wire)),
                            ![url].wire = Tail(@)]
  /\ UNCHANGED <<pc, reqBody, payload, calls, trace, validationResult,
                 httpResponse, now, evals, conc>>

\* res.on('end'): parse what arrived and settle the promise
ResEnd(url) ==
  /\ conns[url].state = "receiving"
  /\ conns[url].wire = <<>>
  /\ conns' = [conns EXCEPT ![url].state = "ended",
                            ![url].promise = OnEnd(conns[url].data)]
  /\ trace' = Append(trace, Event("end", url))
  /\ UNCHANGED <<pc, reqBody, payload, calls, validationResult, httpResponse,
                 now, evals, conc>>

\* the connection closes while the response is arriving: the response emits
\* neither 'data' nor 'end' any more, and no listener is registered for it
ResAborted(url) ==
  /\ conns[url].state = "receiving"
  /\ conns' = [conns EXCEPT ![url].state = "aborted"]
  /\ UNCHANGED <<pc, reqBody, payload, calls, trace, validationResult,
                 httpResponse, now, evals, conc>>

----------------------------------------------------------------------------
(* validateReceipt *)

\* the value validateReceipt has not returned yet
NoResult == [success |-> FALSE, environment |-> "none", error |-> Undefined,
             data |-> Undefined]

\* variant: the outcome carries the receipt member instead of the response
SuccessResult_DataIsReceipt(env, data) ==
  [success |-> TRUE, environment |-> env, error |-> Undefined,
   data |-> IF data.tag = "response" THEN data.receipt ELSE Undefined]

SuccessResult(env, data) ==
  [success |-> TRUE, environment |-> env, error |-> Undefined, data |-> data]

FailureResult(env, message, data) ==
  [success |-> FALSE, environment |-> env, error |-> Str(message), data |-> data]

\* variant: the catch block labels the failure 'production'
CatchResult_LabelsProduction(error) ==
  [success |-> FALSE, environment |-> "production", error |-> error,
   data |-> Undefined]

\* the catch block: environment 'unknown', the error's message, no data
CatchResult(error) ==
  [success |-> FALSE, environment |-> "unknown", error |-> error,
   data |-> Undefined]

\* reading .status of null
StatusTypeError == Str(<<"Cannot read properties of null (reading 'status')">>)

Return(result) == [next |-> "return", result |-> result]
CallSandbox == [next |-> "sandbox", result |-> NoResult]

\* variant: every failed production status is retried against the sandbox
AfterProduction_RetriesAnyFailure(promise) ==
  IF promise.state = "rejected" THEN Return(CatchResult(promise.value))
  ELSE IF Nullish(promise.value) THEN Return(CatchResult(StatusTypeError))
  ELSE IF StrictEq(PropStatus(promise.value), Num(STATUS_OK))
       THEN Return(SuccessResult("production", promise.value))
  ELSE CallSandbox

\* variant: the 21007 branch is missing, the status is reported as a failure
AfterProduction_SkipsFallback(promise) ==
  IF promise.state = "rejected" THEN Return(CatchResult(promise.value))
  ELSE IF Nullish(promise.value) THEN Return(CatchResult(StatusTypeError))
  ELSE IF StrictEq(PropStatus(promise.value), Num(STATUS_OK))
       THEN Return(SuccessResult("production", promise.value))
  ELSE Return(FailureResult("production",
                <<"Production validation failed with status: ">>
                   \o ToText(PropStatus(promise.value)),
                promise.value))

\* validateReceipt from the settled production promise to its next await or
\* its return
AfterProduction(promise) ==
  IF promise.state = "rejected" THEN Return(CatchResult(promise.value))
  ELSE IF Nullish(promise.value) THEN Return(CatchResult(StatusTypeError))
  ELSE IF StrictEq(PropStatus(promise.value), Num(STATUS_OK))
       THEN Return(SuccessResult("production", promise.value))
  ELSE IF StrictEq(PropStatus(promise.value), Num(STATUS_SANDBOX_RECEIPT))
       THEN CallSandbox
  ELSE Return(FailureResult("production",
                <<"Production validation failed with status: ">>
                   \o ToText(PropStatus(promise.value)),
                promise.value))

\* variant: the sandbox success is labelled 'production'
AfterSandbox_SuccessLabelledProduction(promise) ==
  IF promise.state = "rejected" THEN Return(CatchResult(promise.value))
  ELSE IF Nullish(promise.value) THEN Return(CatchResult(StatusTypeError))
  ELSE IF StrictEq(PropStatus(promise.value), Num(STATUS_OK))
       THEN Return(SuccessResult("production", promise.value))
  ELSE Return(FailureResult("sandbox",
                <<"Sandbox validation failed with status: ">>
                   \o ToText(PropStatus(promise.value)),
                promise.value))

\* variant: the sandbox failure is a copy of the production failure
AfterSandbox_FailureLabelledProduction(promise) ==
  IF promise.state = "rejected" THEN Return(CatchResult(promise.value))
  ELSE IF Nullish(promise.value) THEN Return(CatchResult(StatusTypeError))
  ELSE IF StrictEq(PropStatus(promise.value), Num(STATUS_OK))
       THEN Return(SuccessResult("sandbox", promise.value))
  ELSE Return(FailureResult("production",
                <<"Production validation failed with status: ">>
                   \o ToText(PropStatus(promise.value)),
                promise.value))

\* variant: the sandbox answer is taken as verified whatever its status
AfterSandbox_AcceptsAnyStatus(promise) ==
  IF promise.state = "rejected" THEN Return(CatchResult(promise.value))
  ELSE IF Nullish(promise.value) THEN Return(CatchResult(StatusTypeError))
  ELSE Return(SuccessResult("sandbox", promise.value))

\* validateReceipt from the settled sandbox promise to its return
AfterSandbox(promise) ==
  IF promise.state = "rejected" THEN Return(CatchResult(promise.value))
  ELSE IF Nullish(promise.value) THEN Return(CatchResult(StatusTypeError))
  ELSE IF StrictEq(PropStatus(promise.value), Num(STATUS_OK))
       THEN Return(SuccessResult("sandbox", promise.value))
  ELSE Return(FailureResult("sandbox",
                <<"Sandbox validation failed with status: ">>
                   \o ToText(PropStatus(promise.value)),
                promise.value))

\* the payload validateReceipt builds
BuildPayload(receiptData, sharedSecret) ==
  [receiptData |-> receiptData, password |-> sharedSecret, excludeOld |-> TRUE]

NoPayload == [receiptData |-> Undefined, password |-> "", excludeOld |-> FALSE]

Settled(url) == conns[url].promise.state \in {"resolved", "rejected"}

\* the continuation of `await makeAppleRequest(PRODUCTION_URL, payload)`
ProductionSettled ==
  /\ pc = "awaitProduction"
  /\ Settled(PRODUCTION_URL)
  /\ LET step == AfterProduction(conns[PRODUCTION_URL].promise)
     IN IF step.next = "sandbox"
        THEN /\ makeAppleRequest(SANDBOX_URL, payload)
             /\ pc' = "awaitSandbox"
             /\ UNCHANGED validationResult
        ELSE /\ validationResult' = step.result
             /\ pc' = "validated"
             /\ UNCHANGED <<conns, calls, trace>>
  /\ UNCHANGED <<reqBody, payload, httpResponse, now, evals, conc>>

\* the continuation of `await makeAppleRequest(SANDBOX_URL, payload)`
SandboxSettled ==
  /\ pc = "awaitSandbox"
  /\ Settled(SANDBOX_URL)
  /\ validationResult' = AfterSandbox(conns[SANDBOX_URL].promise).result
  /\ pc' = "validated"
  /\ UNCHANGED <<reqBody, payload, conns, calls, trace, httpResponse, now,
                 evals, conc>>

----------------------------------------------------------------------------
(* hasActiveSubscription *)

Returns(b) == [threw |-> FALSE, value |-> b]
Throws == [threw |-> TRUE, value |-> FALSE]

RECURSIVE ScanLatest_StopsAtExpired(_, _, _)
\* variant: the loop gives up at the first entry of the product, expired or not
ScanLatest_StopsAtExpired(items, productId, t) ==
  IF items = <<>> THEN "none"
  ELSE IF Nullish(Head(items)) THEN "throw"
  ELSE IF StrictEq(PropProductId(Head(items)), productId)
       THEN IF GreaterThan(parseInt(PropExpires(Head(items))), t)
            THEN "found" ELSE "none"
  ELSE ScanLatest_StopsAtExpired(Tail(items), productId, t)

RECURSIVE ScanLatest(_, _, _)
\* the loop over latest_receipt_info: "found" at the first entry of the
\* product that expires after t, "throw" at an entry that has no members
ScanLatest(items, productId, t) ==
  IF items = <<>> THEN "none"
  ELSE IF Nullish(Head(items)) THEN "throw"
  ELSE IF /\ StrictEq(PropProductId(Head(items)), productId)
          /\ GreaterThan(parseInt(PropExpires(Head(items))), t)
       THEN "found"
  ELSE ScanLatest(Tail(items), productId, t)

RECURSIVE ScanInApp(_, _)
\* the loop over in_app: "found" at the first entry of the product
ScanInApp(items, productId) ==
  IF items = <<>> THEN "none"
  ELSE IF Nullish(Head(items)) THEN "throw"
  ELSE IF StrictEq(PropProductId(Head(items)), productId) THEN "found"
  ELSE ScanInApp(Tail(items), productId)

\* for (const x of v) over a truthy v: only an array can be iterated
LatestScan(receipt, productId, t) ==
  LET latest == PropLatest(receipt)
  IN IF ~Truthy(latest) THEN "none"
     ELSE IF latest.tag # "array" THEN "throw"
     ELSE ScanLatest(latest.items, productId, t)

InAppScan(receipt, productId) ==
  LET inApp == PropInApp(receipt)
  IN IF ~Truthy(inApp) THEN "none"
     ELSE IF inApp.tag # "array" THEN "throw"
     ELSE ScanInApp(inApp.items, productId)

\* variant: the receipt is read before the success flag is tested
EarlyExit_ReadsReceiptFirst(result) ==
  IF Nullish(result.data) THEN "throw"
  ELSE IF ~Truthy(PropReceipt(result.data)) THEN "false"
  ELSE IF ~result.success THEN "false"
  ELSE "continue"

\* the first statement: "false" for a failed validation or a missing
\* receipt; reading .receipt of a missing data member throws
EarlyExit(result) ==
  IF ~result.success THEN "false"
  ELSE IF Nullish(result.data) THEN "throw"
  ELSE IF ~Truthy(PropReceipt(result.data)) THEN "false"
  ELSE "continue"

\* hasActiveSubscription(validationResult, productId) with Date.now() = t
hasActiveSubscription(result, productId, t) ==
  LET early == EarlyExit(result)
  IN IF early = "false" THEN Returns(FALSE)
     ELSE IF early = "throw" THEN Throws
     ELSE LET receipt == PropReceipt(result.data)
              first == LatestScan(receipt, productId, t)
          IN IF first = "found" THEN Returns(TRUE)
             ELSE IF first = "throw" THEN Throws
             ELSE LET second == InAppScan(receipt, productId)
                  IN IF second = "found" THEN Returns(TRUE)
                     ELSE IF second = "throw" THEN Throws
                     ELSE Returns(FALSE)

----------------------------------------------------------------------------
(* app.post('/validate-receipt') *)

\* res.status(code).json(...): members that are not set are undefined
Json(status, success, error, environment, isPremium, receipt) ==
  [status |-> status, success |-> success, error |-> error,
   environment |-> environment, isPremium |-> isPremium, receipt |-> receipt]

NoResponse == Json(0, FALSE, Undefined, Undefined, Undefined, Undefined)

\* variant: only the receipt data is checked
InputCheck_SkipsProductId(body) ==
  IF ~Truthy(body.receiptData)
  THEN Json(400, FALSE, Str(<<"Receipt data is required">>), Undefined,
            Undefined, Undefined)
  ELSE NoResponse

\* the two checks of the request body: the 400 answer, or NoResponse when
\* both members are present
InputCheck(body) ==
  IF ~Truthy(body.receiptData)
  THEN Json(400, FALSE, Str(<<"Receipt data is required">>), Undefined,
            Undefined, Undefined)
  ELSE IF ~Truthy(body.productId)
  THEN Json(400, FALSE, Str(<<"Product ID is required">>), Undefined,
            Undefined, Undefined)
  ELSE NoResponse

\* variant: no catch block, a throwing evaluation leaves the request unanswered
Respond_NoCatch(result, productId, t) ==
  IF ~result.success
  THEN Json(400, FALSE, result.error, Str(<<result.environment>>), Undefined,
            Undefined)
  ELSE LET hasActiveSub == hasActiveSubscription(result, productId, t)
       IN IF hasActiveSub.threw
          THEN NoResponse
          ELSE Json(200, TRUE, Undefined, Str(<<result.environment>>),
                    Bool(hasActiveSub.value), PropReceipt(result.data))

\* variant: isPremium repeats the success flag of the validation
Respond_PremiumWhenVerified(result, productId, t) ==
  IF ~result.success
  THEN Json(400, FALSE, result.error, Str(<<result.environment>>), Undefined,
            Undefined)
  ELSE LET hasActiveSub == hasActiveSubscription(result, productId, t)
       IN IF hasActiveSub.threw
          THEN Json(500, FALSE, Str(<<"Internal server error">>), Undefined,
                    Undefined, Undefined)
          ELSE Json(200, TRUE, Undefined, Str(<<result.environment>>),
                    Bool(result.success), PropReceipt(result.data))

\* the handler after `await validateReceipt(receiptData)`, with the catch
\* block around it
Respond(result, productId, t) ==
  IF ~result.success
  THEN Json(400, FALSE, result.error, Str(<<result.environment>>), Undefined,
            Undefined)
  ELSE LET hasActiveSub == hasActiveSubscription(result, productId, t)
       IN IF hasActiveSub.threw
          THEN Json(500, FALSE, Str(<<"Internal server error">>), Undefined,
                    Undefined, Undefined)
          ELSE Json(200, TRUE, Undefined, Str(<<result.environment>>),
                    Bool(hasActiveSub.value), PropReceipt(result.data))

\* the request bodies: each member present, empty or missing
RequestBodies ==
  [receiptData : {Undefined, Str(<<>>), Str(<<"receipt-blob">>)},
   productId : {Undefined, ProductP, ProductQ}]

NoBody == [receiptData |-> Undefined, productId |-> Undefined]

\* no interleaved invocations: the value of conc in the specifications of one
\* request and of the evaluator
NoConc == [inv |-> <<>>, cells |-> <<>>]

\* a request arrives: the handler runs to its first answer or to the first
\* await of validateReceipt, which has sent the production request
HandleRequest(body) ==
  /\ pc = "idle"
  /\ reqBody' = body
  /\ IF InputCheck(body) # NoResponse
     THEN /\ httpResponse' = InputCheck(body)
          /\ pc' = "responded"
          /\ UNCHANGED <<payload, conns, calls, trace>>
     ELSE /\ payload' = BuildPayload(body.receiptData, SHARED_SECRET)
          /\ makeAppleRequest(PRODUCTION_URL, payload')
          /\ pc' = "awaitProduction"
          /\ UNCHANGED httpResponse
  /\ UNCHANGED <<validationResult, now, evals, conc>>

\* validateReceipt has returned: the handler answers; evals keeps the call
\* of hasActiveSubscription it makes for a verified receipt
HandlerContinue ==
  /\ pc = "validated"
  /\ httpResponse' = Respond(validationResult, reqBody.productId, now)
  /\ evals' =
       IF validationResult.success
       THEN Append(evals,
              [at |-> now,
               result |-> hasActiveSubscription(validationResult,
                                                reqBody.productId, now)])
       ELSE evals
  /\ pc' = "responded"
  /\ UNCHANGED <<reqBody, payload, conns, calls, trace, validationResult, now,
                 conc>>

\* the wall clock advances
Tick ==
  /\ now < MaxNow
  /\ now' = now + 1
  /\ UNCHANGED <<pc, reqBody, payload, conns, calls, trace, validationResult,
                 httpResponse, evals, conc>>

----------------------------------------------------------------------------
(* The request-level specification: one request to /validate-receipt *)

Init ==
  /\ pc = "idle"
  /\ reqBody = NoBody
  /\ payload = NoPayload
  /\ conns = [u \in URLs |-> NoConn]
  /\ calls = <<>>
  /\ trace = <<>>
  /\ validationResult = NoResult
  /\ httpResponse = NoResponse
  /\ now = 0
  /\ evals = <<>>
  /\ conc = NoConc

Next ==
  \/ \E body \in RequestBodies : HandleRequest(body)
  \/ \E url \in URLs, msg \in NetworkErrors : ReqError(url, msg)
  \/ \E url \in URLs, body \in WireBodies : ResponseBegin(url, body)
  \/ \E url \in URLs : ResData(url)
  \/ \E url \in URLs : ResEnd(url)
  \/ \E url \in URLs : ResAborted(url)
  \/ ProductionSettled
  \/ SandboxSettled
  \/ HandlerContinue
  \/ Tick

Spec == Init /\ [][Next]_vars

----------------------------------------------------------------------------
(* The evaluator-level specification: hasActiveSubscription applied to the *)
(* outcomes validateReceipt can return                                      *)

SeqsUpTo(S, n) == UNION {[1..k -> S] : k \in 0..n}

\* expires_date_ms: missing, "1", "2", and "2x" (digits, then text)
Expiries == {Undefined, Str(<<"1">>), Str(<<"2">>), Str(<<"2", "x">>)}

\* the entries of latest_receipt_info: null, one product with every expiry,
\* the other product with the expiry "10"
LatestEntries ==
  {Null, Transaction(ProductQ, Str(<<"1", "0">>))}
    \cup {Transaction(ProductP, e) : e \in Expiries}

InAppEntries == {Null} \cup {Transaction(p, Undefined) : p \in Products}

LatestValues ==
  {Undefined, NotIterable} \cup {Arr(s) : s \in SeqsUpTo(LatestEntries, MaxLen)}

InAppValues ==
  {Undefined, NotIterable} \cup {Arr(s) : s \in SeqsUpTo(InAppEntries, MaxLen)}

\* the receipt member of a response: missing, null, a string, or a record
EvalReceipts ==
  {Undefined, Null, Str(<<"receipt">>)}
    \cup {Receipt(l, i) : l \in LatestValues, i \in InAppValues}

\* the outcomes validateReceipt returns, made from its own return statements
EvalOutcomes ==
  {AfterProduction(Resolved(Response(Num(STATUS_OK), r))).result :
     r \in EvalReceipts}
    \cup {AfterSandbox(Resolved(v)).result : v \in ResponseValues}
    \cup {AfterProduction(p).result :
            p \in {Resolved(v) : v \in ResponseValues \ {Response(Num(STATUS_SANDBOX_RECEIPT), r) : r \in WireReceipts}}
                    \cup {OnEnd(<<>>), OnRequestError("socket hang up")}}

\* one call of hasActiveSubscription at the current time
Evaluate ==
  /\ pc = "evaluator"
  /\ Len(evals) < MaxEvals
  /\ evals' = Append(evals,
                [at |-> now,
                 result |-> hasActiveSubscription(validationResult,
                                                  reqBody.productId, now)])
  /\ UNCHANGED <<pc, reqBody, payload, conns, calls, trace, validationResult,
                 httpResponse, now, conc>>

EvalInit ==
  /\ pc = "evaluator"
  /\ reqBody \in [receiptData : {Str(<<"receipt-blob">>)}, productId : Products]
  /\ payload = NoPayload
  /\ conns = [u \in URLs |-> NoConn]
  /\ calls = <<>>
  /\ trace = <<>>
  /\ validationResult \in EvalOutcomes
  /\ httpResponse = NoResponse
  /\ now = 0
  /\ evals = <<>>
  /\ conc = NoConc

EvalNext == Evaluate \/ Tick

EvalSpec == EvalInit /\ [][EvalNext]_vars

----------------------------------------------------------------------------
(* Vocabulary of the properties *)

ProductionPromise == conns[PRODUCTION_URL].promise
SandboxPromise == conns[SANDBOX_URL].promise

\* the endpoint answered with a JSON object whose status member is s
AnsweredWith(promise, s) ==
  /\ promise.state = "resolved"
  /\ promise.value.tag = "response"
  /\ promise.value.status = s

\* the endpoint answered with a JSON object whose status is none of ss
AnsweredOutside(promise, ss) ==
  /\ promise.state = "resolved"
  /\ promise.value.tag = "response"
  /\ promise.value.status \notin ss

\* validateReceipt has returned
Returned == validationResult # NoResult

\* the text part occurs in the message
Contains(message, part) ==
  \E i \in 1..(Len(message) - Len(part) + 1) :
    SubSeq(message, i, i + Len(part) - 1) = part

\* the promise of the call is still pending
InFlight(url) == conns[url].promise.state = "pending"

CallsTo(url) == Cardinality({i \in 1..Len(calls) : calls[i].url = url})

----------------------------------------------------------------------------
(* C1..C4: the status decisions of validateReceipt *)

\* C1: when production answers 21007 and the sandbox answers 0 the outcome is
\* a success with environment 'sandbox', and the sandbox request is sent
\* only after the production request was sent and its response had ended.
C1_SandboxFallbackVerified ==
  /\ (/\ Returned
      /\ AnsweredWith(ProductionPromise, Num(STATUS_SANDBOX_RECEIPT))
      /\ AnsweredWith(SandboxPromise, Num(STATUS_OK)))
       => /\ validationResult.success
          /\ validationResult.environment = "sandbox"
          /\ validationResult.data = SandboxPromise.value
  /\ \A i \in 1..Len(trace) :
       trace[i] = Event("send", SANDBOX_URL)
         => \E j, k \in 1..(i - 1) :
              /\ j < k
              /\ trace[j] = Event("send", PRODUCTION_URL)
              /\ trace[k] = Event("end", PRODUCTION_URL)

W1_SandboxFallbackVerified ==
  /\ Returned
  /\ AnsweredWith(ProductionPromise, Num(STATUS_SANDBOX_RECEIPT))
  /\ AnsweredWith(SandboxPromise, Num(STATUS_OK))
  /\ validationResult.success
  /\ trace = <<Event("send", PRODUCTION_URL), Event("end", PRODUCTION_URL),
               Event("send", SANDBOX_URL), Event("end", SANDBOX_URL)>>

\* C2: when production answers with a status other than 0 and 21007 the
\* outcome is a rejection with environment 'production' whose reason
\* contains that status, and the production call stays the only outbound
\* call: the sandbox endpoint is never called.
C2_ProductionRejected ==
  AnsweredOutside(ProductionPromise,
                  {Num(STATUS_OK), Num(STATUS_SANDBOX_RECEIPT)})
    => /\ Len(calls) = 1
       /\ calls[1].url = PRODUCTION_URL
       /\ conns[SANDBOX_URL] = NoConn
       /\ pc # "awaitProduction"
            => /\ Returned
               /\ ~validationResult.success
               /\ validationResult.environment = "production"
               /\ validationResult.error.tag = "string"
               /\ Contains(validationResult.error.v,
                           ToText(ProductionPromise.value.status))

W2_ProductionRejected ==
  /\ AnsweredWith(ProductionPromise, OtherStatus)
  /\ Returned
  /\ validationResult.environment = "production"
  /\ Contains(validationResult.error.v, <<"2", "1", "0", "0", "4">>)

\* C3: when production answers 0 the outcome is a success with environment
\* 'production' that carries the production response, and no sandbox call
\* is made.
C3_ProductionVerified ==
  AnsweredWith(ProductionPromise, Num(STATUS_OK))
    => /\ CallsTo(SANDBOX_URL) = 0
       /\ conns[SANDBOX_URL] = NoConn
       /\ pc # "awaitProduction"
            => /\ validationResult.success
               /\ validationResult.environment = "production"
               /\ validationResult.data = ProductionPromise.value

W3_ProductionVerified ==
  /\ AnsweredWith(ProductionPromise, Num(STATUS_OK))
  /\ validationResult.success
  /\ validationResult.data.receipt # Undefined
  /\ pc = "responded"

\* C4: when production answers 21007 and the sandbox answers with any status
\* other than 0, 21007 included, the outcome is a rejection with
\* environment 'sandbox' whose reason contains the sandbox status, and
\* there are never more than the two outbound calls.
C4_SandboxRejected ==
  /\ Len(calls) <= 2
  /\ (/\ AnsweredWith(ProductionPromise, Num(STATUS_SANDBOX_RECEIPT))
      /\ AnsweredOutside(SandboxPromise, {Num(STATUS_OK)})
      /\ pc # "awaitSandbox")
       => /\ Returned
          /\ ~validationResult.success
          /\ validationResult.environment = "sandbox"
          /\ validationResult.error.tag = "string"
          /\ Contains(validationResult.error.v,
                      ToText(SandboxPromise.value.status))
          /\ Len(calls) = 2

W4_SandboxRejected ==
  /\ AnsweredWith(ProductionPromise, Num(STATUS_SANDBOX_RECEIPT))
  /\ AnsweredWith(SandboxPromise, Num(STATUS_SANDBOX_RECEIPT))
  /\ Returned
  /\ validationResult.environment = "sandbox"
  /\ Contains(validationResult.error.v, <<"2", "1", "0", "0", "7">>)
  /\ pc = "responded"

----------------------------------------------------------------------------
(* C5..C8: failures, call discipline and the shape of the outcome *)

\* C5: a transport failure (the request's error event, or a body that does
\* not parse) yields a rejection with environment 'unknown' whose reason is
\* the message of the transport error; on the production call nothing is
\* sent to the sandbox, and on the sandbox call the environment is
\* 'unknown' as well, not 'sandbox'.
C5_TransportFailureUnknown ==
  /\ ProductionPromise.state = "rejected"
       => /\ Len(calls) = 1
          /\ conns[SANDBOX_URL] = NoConn
          /\ pc # "awaitProduction"
               => /\ Returned
                  /\ ~validationResult.success
                  /\ validationResult.environment = "unknown"
                  /\ validationResult.error = ProductionPromise.value
  /\ (SandboxPromise.state = "rejected" /\ pc # "awaitSandbox")
       => /\ Returned
          /\ ~validationResult.success
          /\ validationResult.environment = "unknown"
          /\ validationResult.error = SandboxPromise.value
          /\ Len(calls) = 2

W5_TransportFailureUnknown ==
  /\ SandboxPromise.state = "rejected"
  /\ SandboxPromise.value.v[1] = "Failed to parse Apple response: "
  /\ Returned
  /\ validationResult.environment = "unknown"
  /\ validationResult.error.v =
       <<"Failed to parse Apple response: ", "Unexpected token in JSON">>

\* C6: an invocation makes one or two outbound calls; the first goes to
\* production; there is a second call exactly when the production response
\* arrived with status 21007, and it goes to the sandbox; the two calls are
\* never in flight together.
C6_CallDiscipline ==
  /\ Len(calls) <= 2
  /\ Returned => Len(calls) >= 1
  /\ calls # <<>> => calls[1].url = PRODUCTION_URL
  /\ Len(calls) = 2
       => /\ calls[2].url = SANDBOX_URL
          /\ AnsweredWith(ProductionPromise, Num(STATUS_SANDBOX_RECEIPT))
  /\ (/\ AnsweredWith(ProductionPromise, Num(STATUS_SANDBOX_RECEIPT))
      /\ pc # "awaitProduction")
       => Len(calls) = 2
  /\ ~(InFlight(PRODUCTION_URL) /\ InFlight(SANDBOX_URL))

W6_CallDiscipline ==
  /\ Len(calls) = 2
  /\ InFlight(SANDBOX_URL)
  /\ conns[SANDBOX_URL].state = "receiving"
  /\ ~InFlight(PRODUCTION_URL)

\* the evaluator throws on the validated receipt whatever the time
EvaluationThrows ==
  \A t \in 0..MaxNow :
    hasActiveSubscription(validationResult, reqBody.productId, t).threw

\* C7: failures are data.  Whatever the endpoints do, validateReceipt returns
\* a value, a rejection with an error string when it is not a success (a
\* parsed null included), and every answer of the handler that is not the
\* 200 answer has success false and an error string; when the evaluation
\* throws on the receipt the answer is the 500 failure.
C7_FailuresAreData ==
  /\ (pc = "validated" \/ (pc = "responded" /\ calls # <<>>)) => Returned
  /\ (Returned /\ ~validationResult.success)
       => /\ validationResult.error.tag = "string"
          /\ validationResult.error.v # <<>>
          /\ validationResult.environment \in
               {"production", "sandbox", "unknown"}
  /\ \A url \in URLs :
       (/\ conns[url].promise.state = "resolved"
        /\ conns[url].promise.value.tag # "response"
        /\ pc \in {"validated", "responded"})
         => Returned /\ ~validationResult.success
  /\ pc = "responded"
       => /\ httpResponse.status \in {200, 400, 500}
          /\ httpResponse.status # 200
               => /\ ~httpResponse.success
                  /\ httpResponse.error.tag = "string"
                  /\ httpResponse.error.v # <<>>
          /\ httpResponse.status = 200
               => /\ httpResponse.success
                  /\ validationResult.success
                  /\ httpResponse.error = Undefined
          /\ (Returned /\ ~validationResult.success)
               => /\ httpResponse.status = 400
                  /\ httpResponse.error = validationResult.error
          /\ (validationResult.success /\ EvaluationThrows)
               => /\ httpResponse.status = 500
                  /\ httpResponse.error = Str(<<"Internal server error">>)

W7_FailuresAreData ==
  /\ pc = "responded"
  /\ validationResult.success
  /\ EvaluationThrows
  /\ httpResponse.status = 500
  /\ ~httpResponse.success

\* the outcome is one of the two variants, and a success names the endpoint
\* that answered 0
OutcomeShape ==
  Returned
    => /\ validationResult.success
            => /\ validationResult.environment \in {"production", "sandbox"}
               /\ validationResult.error = Undefined
               /\ validationResult.data.tag = "response"
       /\ ~validationResult.success
            => /\ validationResult.environment \in
                    {"production", "sandbox", "unknown"}
               /\ validationResult.error.tag = "string"
       /\ (validationResult.success /\ validationResult.environment = "sandbox")
            => /\ AnsweredWith(SandboxPromise, Num(STATUS_OK))
               /\ validationResult.data = SandboxPromise.value
       /\ (validationResult.success
             /\ validationResult.environment = "production")
            => /\ AnsweredWith(ProductionPromise, Num(STATUS_OK))
               /\ conns[SANDBOX_URL] = NoConn

\* C8: a completed invocation has exactly one outcome, a success or a
\* rejection and never both; a success has environment 'production' or
\* 'sandbox', and 'sandbox' only when the sandbox endpoint answered 0; the
\* outcome, once returned, never changes.
C8_OneOutcome ==
  /\ []OutcomeShape
  /\ [][Returned => validationResult' = validationResult]_vars

W8_OneOutcome ==
  /\ pc = "validated"
  /\ validationResult.success
  /\ validationResult.environment = "sandbox"
  /\ AnsweredWith(SandboxPromise, Num(STATUS_OK))

----------------------------------------------------------------------------
(* C9, C10: hasActiveSubscription *)

ItemsOf(v) == IF v.tag = "array" THEN v.items ELSE <<>>

\* the receipt record of an outcome, Undefined when there is none
ReceiptOf(result) ==
  IF result.data.tag = "response" /\ result.data.receipt.tag = "receipt"
  THEN result.data.receipt ELSE Undefined

IsEntryFor(entry, productId) ==
  entry.tag = "transaction" /\ entry.product_id = productId

\* the entry expires strictly after t; an entry without expiry never does
ExpiresAfter(entry, t) ==
  LET expiry == parseInt(entry.expires_date_ms)
  IN expiry.tag = "number" /\ expiry.v > t

\* the entitlement as the specification states it
Entitled(result, productId, t) ==
  /\ result.success
  /\ ReceiptOf(result) # Undefined
  /\ LET latest == ItemsOf(ReceiptOf(result).latest_receipt_info)
         inApp == ItemsOf(ReceiptOf(result).in_app)
     IN \/ \E i \in DOMAIN latest :
             IsEntryFor(latest[i], productId) /\ ExpiresAfter(latest[i], t)
        \/ \E i \in DOMAIN inApp : IsEntryFor(inApp[i], productId)

\* both sequences are missing or arrays of transaction records
WellFormedReceipt(receipt) ==
  /\ receipt.tag = "receipt"
  /\ \A member \in {receipt.latest_receipt_info, receipt.in_app} :
       \/ member = Undefined
       \/ /\ member.tag = "array"
          /\ \A i \in DOMAIN member.items : member.items[i].tag = "transaction"

\* C9: hasActiveSubscription returns true exactly when the outcome is a
\* success with a receipt in which some latest_receipt_info entry of the
\* product expires strictly after the current time or some in_app entry is of
\* the product, for every order of the entries and with duplicates; on a
\* receipt whose sequences hold transaction records it always returns.
C9_EntitlementIff ==
  \A i \in 1..Len(evals) :
    /\ ~evals[i].result.threw
         => (evals[i].result.value
               <=> Entitled(validationResult, reqBody.productId, evals[i].at))
    /\ (validationResult.success /\ WellFormedReceipt(ReceiptOf(validationResult)))
         => ~evals[i].result.threw

W9_EntitlementIff ==
  /\ evals # <<>>
  /\ evals[1].result = Returns(TRUE)
  /\ validationResult.success
  /\ WellFormedReceipt(ReceiptOf(validationResult))
  /\ LET latest == ItemsOf(ReceiptOf(validationResult).latest_receipt_info)
     IN /\ Len(latest) = 2
        /\ \A i \in 1..2 :
             /\ IsEntryFor(latest[i], reqBody.productId)
             /\ ~ExpiresAfter(latest[i], evals[1].at)
        /\ parseInt(latest[1].expires_date_ms) = Num(evals[1].at)

\* C10: hasActiveSubscription returns false, and does not throw, for every
\* rejected outcome whatever the product (the rejection of the catch block,
\* which has no data, included) and for every success whose response has no
\* receipt record.
C10_FalseWithoutReceipt ==
  \A i \in 1..Len(evals) :
    (~validationResult.success \/ ReceiptOf(validationResult) = Undefined)
      => evals[i].result = Returns(FALSE)

W10_FalseWithoutReceipt ==
  /\ evals # <<>>
  /\ ~validationResult.success
  /\ validationResult.environment = "unknown"
  /\ validationResult.data = Undefined
  /\ evals[1].result = Returns(FALSE)

----------------------------------------------------------------------------
(* C11, C12: the route handler *)

\* C11: a request without receiptData or without productId is answered at
\* once with a failure, before validateReceipt is called: nothing is ever
\* sent to the production or the sandbox endpoint for it.
C11_InputRejectedBeforeValidation ==
  (pc # "idle" /\ (~Truthy(reqBody.receiptData) \/ ~Truthy(reqBody.productId)))
    => /\ pc = "responded"
       /\ httpResponse.status = 400
       /\ ~httpResponse.success
       /\ httpResponse.error =
            IF ~Truthy(reqBody.receiptData)
            THEN Str(<<"Receipt data is required">>)
            ELSE Str(<<"Product ID is required">>)
       /\ calls = <<>>
       /\ trace = <<>>
       /\ \A url \in URLs : conns[url] = NoConn
       /\ payload = NoPayload
       /\ ~Returned

W11_InputRejectedBeforeValidation ==
  /\ pc = "responded"
  /\ Truthy(reqBody.receiptData)
  /\ reqBody.productId = Undefined
  /\ httpResponse.error = Str(<<"Product ID is required">>)
  /\ calls = <<>>

\* the endpoint the outcome names answered with status 0
VerifiedBy(environment) ==
  \/ environment = "production"
       /\ AnsweredWith(ProductionPromise, Num(STATUS_OK))
  \/ environment = "sandbox" /\ AnsweredWith(SandboxPromise, Num(STATUS_OK))

\* the answer to a rejected validation: the error and the environment
RejectedAnswer ==
  /\ httpResponse =
       Json(400, FALSE, validationResult.error,
            Str(<<validationResult.environment>>), Undefined, Undefined)
  /\ evals = <<>>

\* the answer to a verified receipt on which the evaluator returned
VerifiedAnswer ==
  /\ httpResponse.status = 200
  /\ httpResponse.success
  /\ httpResponse.isPremium = Bool(evals[1].result.value)
  /\ evals[1].result.value
       <=> Entitled(validationResult, reqBody.productId, evals[1].at)
  /\ httpResponse.environment = Str(<<validationResult.environment>>)
  /\ VerifiedBy(validationResult.environment)
  /\ httpResponse.receipt = validationResult.data.receipt

\* C12 as stated: the answer is success:true with isPremium and environment
\* exactly when the validation was verified, isPremium is the evaluator's
\* result for the product and environment the endpoint that verified; a
\* rejected validation is answered success:false with the error and the
\* environment, and never with isPremium true.
C12_AsStated ==
  (pc = "responded" /\ Returned)
    => /\ httpResponse.success <=> validationResult.success
       /\ validationResult.success => VerifiedAnswer
       /\ ~validationResult.success => RejectedAnswer

\* C12 as amended: the answer is success:true with isPremium and environment
\* exactly when the validation was verified and the evaluator returned a
\* value; a verified receipt on which the evaluator throws is answered with
\* the 500 failure, without isPremium and environment; a rejected validation
\* is answered success:false with the error and the environment; isPremium
\* is never true unless the receipt was verified.
C12_EndToEnd ==
  /\ (pc = "responded" /\ Returned)
       => /\ httpResponse.success
               <=> (validationResult.success /\ ~evals[1].result.threw)
          /\ (validationResult.success /\ ~evals[1].result.threw)
               => VerifiedAnswer
          /\ (validationResult.success /\ evals[1].result.threw)
               => httpResponse =
                    Json(500, FALSE, Str(<<"Internal server error">>),
                         Undefined, Undefined, Undefined)
          /\ ~validationResult.success => RejectedAnswer
  /\ httpResponse.isPremium # Undefined
       => Returned /\ validationResult.success

W12_EndToEnd ==
  /\ pc = "responded"
  /\ httpResponse.status = 200
  /\ httpResponse.isPremium = Bool(TRUE)
  /\ httpResponse.environment = Str(<<"sandbox">>)
  /\ reqBody.productId = ProductP
  /\ Len(ItemsOf(ReceiptOf(validationResult).in_app)) = 1

----------------------------------------------------------------------------
(* C13: repeated calls of hasActiveSubscription *)

\* some latest_receipt_info entry of the product expires after t1 and not
\* after t2
ExpiryPassed(result, productId, t1, t2) ==
  /\ ReceiptOf(result) # Undefined
  /\ LET latest == ItemsOf(ReceiptOf(result).latest_receipt_info)
     IN \E k \in DOMAIN latest :
          /\ IsEntryFor(latest[k], productId)
          /\ ExpiresAfter(latest[k], t1)
          /\ ~ExpiresAfter(latest[k], t2)

\* two calls at the same time agree; two calls that differ are a true
\* followed, at a later time, by a result that is not true, with an expiry of
\* the product between the two times
RepeatedCallsAgree ==
  \A i, j \in 1..Len(evals) :
    i < j
      => /\ evals[i].at = evals[j].at => evals[i].result = evals[j].result
         /\ evals[i].result # evals[j].result
              => /\ evals[i].at < evals[j].at
                 /\ evals[i].result = Returns(TRUE)
                 /\ ExpiryPassed(validationResult, reqBody.productId,
                                 evals[i].at, evals[j].at)

----------------------------------------------------------------------------
(* C15, C18: the expiry comparison *)

\* the entries of latest_receipt_info that are of the product
EntriesFor(result, productId) ==
  LET latest == ItemsOf(ReceiptOf(result).latest_receipt_info)
  IN {k \in DOMAIN latest : IsEntryFor(latest[k], productId)}

LatestEntry(result, k) == ItemsOf(ReceiptOf(result).latest_receipt_info)[k]

\* a verified receipt of transaction records without an in_app entry of the
\* product
SubscriptionOnly(result, productId) ==
  /\ result.success
  /\ WellFormedReceipt(ReceiptOf(result))
  /\ \A k \in DOMAIN ItemsOf(ReceiptOf(result).in_app) :
       ~IsEntryFor(ItemsOf(ReceiptOf(result).in_app)[k], productId)

\* the expiry of the entry is the number n
ExpiresAt(entry, n) == parseInt(entry.expires_date_ms) = Num(n)

\* C15: the comparison of the expiry with the time is strict and each call
\* uses one reading of the clock: without an in_app entry of the product, a
\* call at time t returns true when some entry of the product expires at
\* t + 1, and false when an entry of the product expires at t and none
\* expires later.
C15_StrictExpiry ==
  \A i \in 1..Len(evals) :
    SubscriptionOnly(validationResult, reqBody.productId)
      => LET mine == EntriesFor(validationResult, reqBody.productId)
             t == evals[i].at
         IN /\ (\E k \in mine :
                  ExpiresAt(LatestEntry(validationResult, k), t + 1))
                 => evals[i].result = Returns(TRUE)
            /\ (/\ \E k \in mine :
                     ExpiresAt(LatestEntry(validationResult, k), t)
                /\ \A k \in mine :
                     ~ExpiresAfter(LatestEntry(validationResult, k), t))
                 => evals[i].result = Returns(FALSE)

W15_StrictExpiry ==
  /\ Len(evals) = 2
  /\ SubscriptionOnly(validationResult, reqBody.productId)
  /\ evals[2].at = evals[1].at + 1
  /\ evals[1].result = Returns(TRUE)
  /\ evals[2].result = Returns(FALSE)
  /\ \E k \in EntriesFor(validationResult, reqBody.productId) :
       ExpiresAt(LatestEntry(validationResult, k), evals[2].at)

\* C18: an entry of latest_receipt_info that is of the product and has no
\* expiry never qualifies: without an in_app entry of the product the call
\* returns false when no other entry of the product expires later, and the
\* scan goes on past such an entry, so that a later entry of the product
\* which expires after the time still gives true.
C18_MissingExpiryNeverQualifies ==
  \A i \in 1..Len(evals) :
    SubscriptionOnly(validationResult, reqBody.productId)
      => LET mine == EntriesFor(validationResult, reqBody.productId)
             t == evals[i].at
         IN /\ (/\ \E k \in mine :
                     LatestEntry(validationResult, k).expires_date_ms
                       = Undefined
                /\ \A k \in mine :
                     \/ LatestEntry(validationResult, k).expires_date_ms
                          = Undefined
                     \/ ~ExpiresAfter(LatestEntry(validationResult, k), t))
                 => evals[i].result = Returns(FALSE)
            /\ (\E k, m \in mine :
                  /\ k < m
                  /\ LatestEntry(validationResult, k).expires_date_ms
                       = Undefined
                  /\ ExpiresAfter(LatestEntry(validationResult, m), t))
                 => evals[i].result = Returns(TRUE)

W18_MissingExpiryNeverQualifies ==
  /\ Len(evals) = 2
  /\ SubscriptionOnly(validationResult, reqBody.productId)
  /\ Len(ItemsOf(ReceiptOf(validationResult).latest_receipt_info)) = 2
  /\ EntriesFor(validationResult, reqBody.productId) = {1, 2}
  /\ LatestEntry(validationResult, 1).expires_date_ms = Undefined
  /\ ExpiresAt(LatestEntry(validationResult, 2), 1)
  /\ evals[1] = [at |-> 0, result |-> Returns(TRUE)]
  /\ evals[2] = [at |-> 1, result |-> Returns(FALSE)]

----------------------------------------------------------------------------
(* C16: the request body of the two calls *)

\* the body the handler's request asks for: the receipt, the shared secret
\* and the flag, set
ExpectedPostData ==
  <<<<"receipt-data", reqBody.receiptData>>,
    <<"password", Str(<<SHARED_SECRET>>)>>,
    <<"exclude-old-transactions", Bool(TRUE)>>>>

\* C16: the sandbox retry sends the request body that was sent to production:
\* the receipt payload, the shared secret and the exclude-old-transactions
\* flag, which is always true, are the same in both calls of an invocation.
C16_SameBodyOnRetry ==
  /\ \A i \in 1..Len(calls) : calls[i].postData = ExpectedPostData
  /\ Len(calls) = 2
       => /\ calls[1].url = PRODUCTION_URL
          /\ calls[2].url = SANDBOX_URL
          /\ calls[2].postData = calls[1].postData
  /\ calls # <<>> => payload = BuildPayload(reqBody.receiptData, SHARED_SECRET)

W16_SameBodyOnRetry ==
  /\ pc = "awaitSandbox"
  /\ Len(calls) = 2
  /\ calls[2].url = SANDBOX_URL
  /\ calls[2].postData = calls[1].postData
  /\ calls[2].postData[1][2] = Str(<<"receipt-blob">>)

----------------------------------------------------------------------------
(* C17: the promise of makeAppleRequest *)

\* no further transport event can happen on the connection
TransportOver(url) == conns[url].state \in {"ended", "failed", "aborted"}

\* C17: every invocation returns an outcome once each of its connections has
\* delivered its response or failed: whatever the transport events were
\* (request error, response end, connection dropped after the response
\* started and before it ended), a connection whose transport is over has
\* settled its promise, so no promise stays pending forever.
C17_PromiseSettles ==
  \A url \in URLs :
    TransportOver(url)
      => conns[url].promise.state \in {"resolved", "rejected"}

----------------------------------------------------------------------------
(* The interleaving specification: NumInvocations calls of validateReceipt *)
(* in flight together.  Each call has its own locals (payload, the two     *)
(* results); the string that collects a response is one cell per response  *)
(* callback.                                                                *)

Invocations == 1..NumInvocations

\* variant: one collecting string at module level, used by every response
DataCell_ModuleLevel(i, url) == <<0, "data">>

\* `let data = ''` inside the response callback: a cell of its own for each
\* call of makeAppleRequest
DataCell(i, url) == <<i, url>>

CellKeys == {DataCell(i, url) : i \in Invocations, url \in URLs}

\* the receipt the i-th caller passes
ReceiptDataOf(i) == Str(<<"receipt-blob-">> \o NatText(i))

\* the bodies the endpoints send in this specification
ConcBodies ==
  {BodyOf(Response(Num(STATUS_OK), Undefined)),
   BodyOf(Response(Num(STATUS_SANDBOX_RECEIPT), Undefined)),
   <<GarbageChunk>>}

\* what the transport did for one call: nothing yet, a body, or an error;
\* wrote and read record the cells the listeners of an invocation have
\* assigned and have read
NotServed == [kind |-> "none", body |-> <<>>, msg |-> ""]
ServedBody(body) == [kind |-> "body", body |-> body, msg |-> ""]
ServedError(msg) == [kind |-> "error", body |-> <<>>, msg |-> msg]

IdleConn == [state |-> "unsent", wire |-> <<>>,
             promise |-> [state |-> "none", value |-> Undefined]]

IdleInvocation ==
  [pc |-> "idle", payload |-> NoPayload, conns |-> [u \in URLs |-> IdleConn],
   calls |-> <<>>, result |-> NoResult, served |-> [u \in URLs |-> NotServed],
   wrote |-> {}, read |-> {}]

\* makeAppleRequest(url, payload) in the locals of one invocation
SendIn(st, url) ==
  [st EXCEPT !.conns[url] = [state |-> "sent", wire |-> <<>>,
                             promise |-> Pending],
             !.calls = Append(@, [url |-> url,
                                  postData |-> JSONstringify(st.payload)])]

\* validateReceipt(receiptData) is called: the payload is built and the
\* production request is sent
CInvoke(i) ==
  /\ conc.inv[i].pc = "idle"
  /\ conc' = [conc EXCEPT !.inv[i] =
                SendIn([conc.inv[i] EXCEPT
                          !.pc = "awaitProduction",
                          !.payload = BuildPayload(ReceiptDataOf(i),
                                                   SHARED_SECRET)],
                       PRODUCTION_URL)]
  /\ UNCHANGED <<pc, reqBody, payload, conns, calls, trace, validationResult,
                 httpResponse, now, evals>>

\* req.on('error') of a call of invocation i
CReqError(i, url, msg) ==
  /\ conc.inv[i].conns[url].state \in {"sent", "receiving"}
  /\ conc' = [conc EXCEPT !.inv[i].conns[url].state = "failed",
                          !.inv[i].conns[url].promise = OnRequestError(msg),
                          !.inv[i].served[url] = ServedError(msg)]
  /\ UNCHANGED <<pc, reqBody, payload, conns, calls, trace, validationResult,
                 httpResponse, now, evals>>

\* the response callback of a call of invocation i: data = ''
CResponseBegin(i, url, body) ==
  /\ conc.inv[i].conns[url].state = "sent"
  /\ conc' = [conc EXCEPT !.inv[i].conns[url].state = "receiving",
                          !.inv[i].conns[url].wire = body,
                          !.inv[i].served[url] = ServedBody(body),
                          !.inv[i].wrote = @ \cup {DataCell(i, url)},
                          !.cells[DataCell(i, url)] = <<>>]
  /\ UNCHANGED <<pc, reqBody, payload, conns, calls, trace, validationResult,
                 httpResponse, now, evals>>

\* res.on('data') of a call of invocation i: data += chunk
CResData(i, url) ==
  /\ conc.inv[i].conns[url].state = "receiving"
  /\ conc.inv[i].conns[url].wire # <<>>
  /\ conc' = [conc EXCEPT
                !.inv[i].conns[url].wire = Tail(@),
                !.inv[i].read = @ \cup {DataCell(i, url)},
                !.inv[i].wrote = @ \cup {DataCell(i, url)},
                !.cells[DataCell(i, url)] =
                   Append(@, Head(conc.inv[i].conns[url].wire))]
  /\ UNCHANGED <<pc, reqBody, payload, conns, calls, trace, validationResult,
                 httpResponse, now, evals>>

\* res.on('end') of a call of invocation i
CResEnd(i, url) ==
  /\ conc.inv[i].conns[url].state = "receiving"
  /\ conc.inv[i].conns[url].wire = <<>>
  /\ conc' = [conc EXCEPT
                !.inv[i].conns[url].state = "ended",
                !.inv[i].read = @ \cup {DataCell(i, url)},
                !.inv[i].conns[url].promise =
                   OnEnd(conc.cells[DataCell(i, url)])]
  /\ UNCHANGED <<pc, reqBody, payload, conns, calls, trace, validationResult,
                 httpResponse, now, evals>>

\* the connection of a call of invocation i closes cleanly after the
\* response began: no listener of that call runs
CResAborted(i, url) ==
  /\ conc.inv[i].conns[url].state = "receiving"
  /\ conc' = [conc EXCEPT !.inv[i].conns[url].state = "aborted"]
  /\ UNCHANGED <<pc, reqBody, payload, conns, calls, trace, validationResult,
                 httpResponse, now, evals>>

\* the continuation of the production await of invocation i
CProductionSettled(i) ==
  /\ conc.inv[i].pc = "awaitProduction"
  /\ conc.inv[i].conns[PRODUCTION_URL].promise.state
       \in {"resolved", "rejected"}
  /\ LET step == AfterProduction(conc.inv[i].conns[PRODUCTION_URL].promise)
     IN conc' = [conc EXCEPT !.inv[i] =
                   IF step.next = "sandbox"
                   THEN SendIn([conc.inv[i] EXCEPT !.pc = "awaitSandbox"],
                               SANDBOX_URL)
                   ELSE [conc.inv[i] EXCEPT !.pc = "returned",
                                            !.result = step.result]]
  /\ UNCHANGED <<pc, reqBody, payload, conns, calls, trace, validationResult,
                 httpResponse, now, evals>>

\* the continuation of the sandbox await of invocation i
CSandboxSettled(i) ==
  /\ conc.inv[i].pc = "awaitSandbox"
  /\ conc.inv[i].conns[SANDBOX_URL].promise.state \in {"resolved", "rejected"}
  /\ conc' = [conc EXCEPT
                !.inv[i].pc = "returned",
                !.inv[i].result =
                   AfterSandbox(conc.inv[i].conns[SANDBOX_URL].promise).result]
  /\ UNCHANGED <<pc, reqBody, payload, conns, calls, trace, validationResult,
                 httpResponse, now, evals>>

ConcInit ==
  /\ pc = "concurrent"
  /\ reqBody = NoBody
  /\ payload = NoPayload
  /\ conns = [u \in URLs |-> NoConn]
  /\ calls = <<>>
  /\ trace = <<>>
  /\ validationResult = NoResult
  /\ httpResponse = NoResponse
  /\ now = 0
  /\ evals = <<>>
  /\ conc = [inv |-> [i \in Invocations |-> IdleInvocation],
             cells |-> [k \in CellKeys |-> <<>>]]

ConcNext ==
  \/ \E i \in Invocations : CInvoke(i)
  \/ \E i \in Invocations, url \in URLs : CReqError(i, url, "socket hang up")
  \/ \E i \in Invocations, url \in URLs, body \in ConcBodies :
       CResponseBegin(i, url, body)
  \/ \E i \in Invocations, url \in URLs : CResData(i, url)
  \/ \E i \in Invocations, url \in URLs : CResEnd(i, url)
  \/ \E i \in Invocations, url \in URLs : CResAborted(i, url)
  \/ \E i \in Invocations : CProductionSettled(i)
  \/ \E i \in Invocations : CSandboxSettled(i)

ConcSpec == ConcInit /\ [][ConcNext]_vars

----------------------------------------------------------------------------
(* C14: invocations in flight together *)

\* the endpoint answered the call of invocation i with a JSON object of
\* status s
ServedStatus(i, url, s) ==
  LET sv == conc.inv[i].served[url]
  IN /\ sv.kind = "body"
     /\ JSONparse(sv.body).ok
     /\ JSONparse(sv.body).value.tag = "response"
     /\ JSONparse(sv.body).value.status = s

\* the call of invocation i failed: a request error, or a body that is not
\* JSON
ServedFailure(i, url) ==
  LET sv == conc.inv[i].served[url]
  IN \/ sv.kind = "error"
     \/ sv.kind = "body" /\ ~JSONparse(sv.body).ok

\* the outcome of invocation i is the one its own answers call for
OwnOutcome(i) ==
  LET r == conc.inv[i].result
  IN \/ /\ ServedStatus(i, PRODUCTION_URL, Num(STATUS_OK))
        /\ r.success /\ r.environment = "production"
     \/ /\ ServedStatus(i, PRODUCTION_URL, Num(STATUS_SANDBOX_RECEIPT))
        /\ ServedStatus(i, SANDBOX_URL, Num(STATUS_OK))
        /\ r.success /\ r.environment = "sandbox"
     \/ /\ ServedStatus(i, PRODUCTION_URL, Num(STATUS_SANDBOX_RECEIPT))
        /\ ServedStatus(i, SANDBOX_URL, Num(STATUS_SANDBOX_RECEIPT))
        /\ ~r.success /\ r.environment = "sandbox"
     \/ /\ \/ ServedFailure(i, PRODUCTION_URL)
           \/ /\ ServedStatus(i, PRODUCTION_URL, Num(STATUS_SANDBOX_RECEIPT))
              /\ ServedFailure(i, SANDBOX_URL)
        /\ ~r.success /\ r.environment = "unknown"

\* every request of invocation i carries the receipt of invocation i
OwnReceiptSent(i) ==
  \A k \in 1..Len(conc.inv[i].calls) :
    conc.inv[i].calls[k].postData =
      JSONstringify(BuildPayload(ReceiptDataOf(i), SHARED_SECRET))

\* no cell one invocation assigns is assigned or read by another
NoSharedCell ==
  \A i, j \in Invocations :
    i # j => conc.inv[i].wrote
               \cap (conc.inv[j].wrote \cup conc.inv[j].read) = {}

\* invocations whose calls were answered alike have returned alike
AnsweredAlikeReturnAlike ==
  \A i, j \in Invocations :
    /\ conc.inv[i].pc = "returned"
    /\ conc.inv[j].pc = "returned"
    /\ conc.inv[i].served = conc.inv[j].served
    => conc.inv[i].result = conc.inv[j].result

\* a step leaves every invocation but one as it was, and what an invocation
\* has returned stays returned
OneInvocationSteps ==
  \E i \in Invocations :
    \A j \in Invocations :
      /\ j # i => conc'.inv[j] = conc.inv[j]
      /\ conc.inv[j].pc = "returned" => conc'.inv[j] = conc.inv[j]

\* C14: for every interleaving of the invocations in flight the outcome of
\* each invocation is the one its own receipt and the answers to its own
\* calls determine (invocations answered alike return alike, whatever the
\* others did), every request carries its own receipt, no invocation
\* assigns a cell that another invocation assigns or reads, and a step of
\* one invocation changes no other invocation.
C14_InvocationsIndependent ==
  /\ [](/\ \A i \in Invocations :
             /\ conc.inv[i].pc = "returned" => OwnOutcome(i)
             /\ OwnReceiptSent(i)
        /\ NoSharedCell
        /\ AnsweredAlikeReturnAlike)
  /\ [][OneInvocationSteps]_vars

\* invocation 1 has returned a sandbox success while invocation 2, answered
\* 21007 by production too, holds the first half of a sandbox answer of
\* status 21007: the two sandbox responses are collected side by side
W14_InvocationsIndependent ==
  /\ conc.inv[1].pc = "returned"
  /\ conc.inv[1].result.success
  /\ conc.inv[1].result.environment = "sandbox"
  /\ conc.inv[1].read # {}
  /\ conc.inv[2].pc = "awaitSandbox"
  /\ conc.inv[2].conns[SANDBOX_URL].state = "receiving"
  /\ ServedStatus(2, SANDBOX_URL, Num(STATUS_SANDBOX_RECEIPT))
  /\ Len(conc.inv[2].conns[SANDBOX_URL].wire) = 1
  /\ conc.inv[2].wrote # {}

====
